---- MODULE Spec2Model ----
(***************************************************************************)
(* Model of project1/main.py: the number guessing game played by an LLM    *)
(* through the tool evaluate_your_try, driven by OpenAIGuessGameAgent.     *)
(*                                                                         *)
(* The LLM client is the environment.  An action is the code that runs     *)
(* from the arrival of one response of client.chat.completions.create to   *)
(* the next request handed to the client (or to the end of play()).        *)
(***************************************************************************)
EXTENDS Integers, Sequences, FiniteSets, TLC

\* ------------------------------------------------------------------ bounds
\* largest max_tries an agent is constructed with
MaxTries == 2
\* largest number of tool invocations in one response
MaxCalls == 2
\* largest number of calls of play() on the one agent
MaxPlays == 2

\* --------------------------------------------------------------- constants
\* random.randint(1, 100)
RangeLo == 1
RangeHi == 100

TOO_HIGH_MESSAGE == "Too high!"
TOO_LOW_MESSAGE == "Too low!"
THAT_IS_RIGHT_MESSAGE == "That's right!"

\* the members of the enumeration GameState
GameState == {"INIT", "PLAYING", "END"}

\* the keys of the dictionary available_functions
available_functions == {"evaluate_your_try"}

\* the tools argument of the two kinds of model call: g_tools carries the one
\* function schema, the final call passes the empty list
g_tools == <<"evaluate_your_try">>
no_tools == <<>>

VARIABLES
    state,              \* self.state
    messages,           \* self.messages, the transcript
    max_tries,          \* self.max_tries
    app_random_number,  \* the secret
    llm_try,            \* the local counter of play()
    pc,                 \* where the caller of play() stands
    plays,              \* number of calls of play() so far
    requests,           \* the requests handed to the client: their tools
    responses,          \* the responses the client has returned
    stdout,             \* the lines printed
    base,               \* lengths of the logs when the current play() began
    ev_guess,           \* argument of a direct call of evaluate_your_try
    ev_result           \* its result

vars == <<state, messages, max_tries, app_random_number, llm_try, pc, plays,
          requests, responses, stdout, base, ev_guess, ev_result>>

\* ------------------------------------------------------------ the evaluator
evaluate_your_try_swapped(guess, secret) ==
    IF guess < secret THEN TOO_HIGH_MESSAGE
    ELSE IF guess > secret THEN TOO_LOW_MESSAGE
    ELSE THAT_IS_RIGHT_MESSAGE

\* evaluate_your_try reads the global app_random_number: here a parameter
evaluate_your_try(guess, secret) ==
    IF guess > secret THEN TOO_HIGH_MESSAGE
    ELSE IF guess < secret THEN TOO_LOW_MESSAGE
    ELSE THAT_IS_RIGHT_MESSAGE

\* the line evaluate_your_try prints
evaluate_print(guess) == "LLM: " \o ToString(guess)

\* ------------------------------------------------------------- JSON helpers
\* the secret and the guesses are drawn from the two ends of the range of
\* random.randint(1, 100): each end is too high or too low for the other
Secrets == {RangeLo, RangeHi}
Guesses == {RangeLo, RangeHi}

\* the argument payloads the model sends: a well formed object with the one
\* key guess, or a truncated text that json.loads rejects
GuessArgs(n) == "{\"guess\": " \o ToString(n) \o "}"
MalformedArgs == "{\"guess\": "
ArgPayloads == {GuessArgs(n) : n \in Guesses} \cup {MalformedArgs}

\* json.loads on a payload: the keyword arguments, or a JSONDecodeError
json_loads(a) ==
    IF \E n \in Guesses : a = GuessArgs(n)
    THEN [ok |-> TRUE, guess |-> CHOOSE n \in Guesses : a = GuessArgs(n)]
    ELSE [ok |-> FALSE, guess |-> 0]

\* json.dumps on a string: the string in double quotes
json_dumps(s) == "\"" \o s \o "\""

\* --------------------------------------------------------------- the client
\* the invocations the model sends: the registered name with each of the
\* argument payloads, and an unregistered name with well formed arguments
\* (the lookup of line 150 fails before the arguments are used)
CallShapes ==
    ({"evaluate_your_try"} \X ArgPayloads)
        \cup {<<"unknown_function", GuessArgs(RangeLo)>>}

\* identifier of the j-th invocation of the response to request number c
NewId(c, j) == "call_" \o ToString((c - 1) * MaxCalls + j)

\* the invocations f of the response to request number c
WithIds(c, f) ==
    [j \in 1..Len(f) |-> [id |-> NewId(c, j),
                          function |-> [name |-> f[j][1], arguments |-> f[j][2]]]]

\* what the client can do with a request: raise or reply in plain text,
PlainResponses ==
    {[kind |-> "fail", content |-> "", tool_calls |-> <<>>],
     [kind |-> "text", content |-> "I cannot guess", tool_calls |-> <<>>]}

\* or reply to request number c with the tool invocations f
ToolsResponse(c, f) == [kind |-> "tools", content |-> "", tool_calls |-> WithIds(c, f)]

\* ---------------------------------------------------------------- messages
start_game_message(m) ==
    "ME: I am thinking of a number between 1 and 100 and you will try to guess it. You have "
        \o ToString(m) \o " tries to guess."

final_message(secret) ==
    "ME: You lost! My number was " \o ToString(secret)
        \o ". How is it possible when you are the fortune teller?"

\* OpenAIGuessGameAgent.init: the seeded transcript
init(m) ==
    << [role |-> "system", content |-> "You are a fortune teller"],
       [role |-> "user", content |-> start_game_message(m)] >>

AssistantTurn_first(resp) ==
    [role |-> "assistant", content |-> resp.content,
     tool_calls |-> <<[id |-> resp.tool_calls[1].id, type |-> "function",
                      function |-> [name |-> resp.tool_calls[1].function.name,
                                    arguments |-> resp.tool_calls[1].function.arguments]]>>]

\* the assistant turn that process_tool_response appends
AssistantTurn(resp) ==
    [role |-> "assistant", content |-> resp.content,
     tool_calls |-> [j \in 1..Len(resp.tool_calls) |->
                        [id |-> resp.tool_calls[j].id, type |-> "function",
                         function |-> [name |-> resp.tool_calls[j].function.name,
                                       arguments |-> resp.tool_calls[j].function.arguments]]]]

ToolTurn_first_id(tool_calls, j, function_response) ==
    [role |-> "tool", tool_call_id |-> tool_calls[1].id,
     name |-> tool_calls[j].function.name, content |-> json_dumps(function_response)]

\* the tool turn appended for the j-th invocation
ToolTurn(tool_calls, j, function_response) ==
    [role |-> "tool", tool_call_id |-> tool_calls[j].id,
     name |-> tool_calls[j].function.name, content |-> json_dumps(function_response)]

StateAfterResult_never(st, function_response) == st

StateAfterResult_any(st, function_response) == "END"

StateAfterResult_last(st, function_response) ==
    IF function_response = THAT_IS_RIGHT_MESSAGE THEN "END" ELSE "PLAYING"

\* lines 152-153: END on the right guess
StateAfterResult(st, function_response) ==
    IF function_response = THAT_IS_RIGHT_MESSAGE THEN "END" ELSE st

\* the for loop of process_tool_response from invocation j on; raised is the
\* message of the exception that left the loop, "" if none
RECURSIVE ToolLoop(_, _, _, _, _, _)
ToolLoop(tool_calls, j, msgs, st, out, secret) ==
    IF j > Len(tool_calls)
    THEN [messages |-> msgs, state |-> st, out |-> out, raised |-> ""]
    ELSE LET function_name == tool_calls[j].function.name
             function_args == json_loads(tool_calls[j].function.arguments)
         IN  IF ~function_args.ok
             THEN [messages |-> msgs, state |-> st, out |-> out, raised |-> "JSONDecodeError"]
             ELSE IF function_name \notin available_functions
             THEN [messages |-> msgs, state |-> st, out |-> out, raised |-> "KeyError"]
             ELSE LET function_response == evaluate_your_try(function_args.guess, secret)
                  IN  ToolLoop(tool_calls, j + 1,
                               Append(msgs, ToolTurn(tool_calls, j, function_response)),
                               StateAfterResult(st, function_response),
                               out \o <<evaluate_print(function_args.guess),
                                        "ME: " \o function_response>>,
                               secret)

process_tool_response(resp, msgs, st, out, secret) ==
    ToolLoop(resp.tool_calls, 1, Append(msgs, AssistantTurn(resp)), st, out, secret)

process_message_appends(resp, msgs, st, out) ==
    [messages |-> Append(msgs, [role |-> "assistant", content |-> resp.content]),
     state |-> st, out |-> Append(out, "LLM: " \o resp.content),
     raised |-> IF st = "PLAYING"
                THEN "Unexpected message from LLM during PLAYING state." ELSE ""]

\* process_message: the reply is printed; an exception while PLAYING
process_message(resp, msgs, st, out) ==
    [messages |-> msgs, state |-> st, out |-> Append(out, "LLM: " \o resp.content),
     raised |-> IF st = "PLAYING"
                THEN "Unexpected message from LLM during PLAYING state." ELSE ""]

\* call_llm once the client has answered resp (or raised)
call_llm(resp, msgs, st, out, secret) ==
    IF resp.kind = "fail"
    THEN [messages |-> msgs, state |-> st, out |-> out, raised |-> "APIConnectionError"]
    ELSE IF resp.tool_calls # <<>>
    THEN process_tool_response(resp, msgs, st, out, secret)
    ELSE process_message(resp, msgs, st, out)

\* ------------------------------------------------------------------ play()
LoopCond_le(t, m) == t <= m

\* line 86: the condition of the while loop
LoopCond(t, m) == t < m

LostTranscript_reset(msgs, secret) ==
    <<[role |-> "user", content |-> final_message(secret)]>>

LostTranscript_none(msgs, secret) == msgs

\* lines 96-98: the transcript with the final user turn
LostTranscript(msgs, secret) ==
    Append(msgs, [role |-> "user", content |-> final_message(secret)])

\* lines 95-99 up to the request: the game is lost
Lost(msgs, out, t) ==
    /\ state' = "END"
    /\ messages' = LostTranscript(msgs, app_random_number)
    /\ stdout' = Append(out, final_message(app_random_number))
    /\ requests' = Append(requests, [tools |-> no_tools])
    /\ llm_try' = t
    /\ pc' = "final"

NextTry_twice(t) == t + 2

\* line 87: the counter after the increment
NextTry(t) == t + 1

\* lines 86-88 up to the request: one more guessing round
Guess(msgs, st, out, t) ==
    /\ state' = st
    /\ messages' = msgs
    /\ stdout' = out
    /\ requests' = Append(requests, [tools |-> g_tools])
    /\ llm_try' = NextTry(t)
    /\ pc' = "guessing"

\* the head of the while loop
LoopHead(msgs, st, out, t) ==
    IF LoopCond(t, max_tries) THEN Guess(msgs, st, out, t) ELSE Lost(msgs, out, t)

Init ==
    /\ max_tries \in 0..MaxTries
    /\ app_random_number \in Secrets
    /\ state = "INIT"
    /\ messages = init(max_tries)
    /\ stdout = <<start_game_message(max_tries)>>
    /\ llm_try = 0
    /\ pc = "idle"
    /\ plays = 0
    /\ requests = <<>>
    /\ responses = <<>>
    /\ base = [messages |-> 2, requests |-> 0, stdout |-> 1]
    /\ ev_guess = 0
    /\ ev_result = ""

\* play() is called on the new agent, as main() does: lines 82-88
Play ==
    /\ pc = "idle"
    /\ plays' = plays + 1
    /\ base' = [messages |-> Len(messages), requests |-> Len(requests), stdout |-> Len(stdout)]
    /\ LoopHead(messages, "PLAYING", stdout, 0)
    /\ UNCHANGED <<max_tries, app_random_number, responses, ev_guess, ev_result>>

RoundOutcome_retry(r) ==
    IF r.raised # "" THEN "loop"
    ELSE IF r.state = "END" THEN "return"
    ELSE "loop"

\* lines 85-92: where play() goes once call_llm is over: to the except
\* clause and the lost game, to the return of line 90, or to the loop head
RoundOutcome(r) ==
    IF r.raised # "" THEN "except"
    ELSE IF r.state = "END" THEN "return"
    ELSE "loop"

\* the client answers the request of a guessing round: lines 88-92, then
\* the loop head again, the return of line 90 or the lost game
RoundWith(resp) ==
    /\ pc = "guessing"
    /\  LET r == call_llm(resp, messages, state, stdout, app_random_number)
            out == IF r.raised # "" THEN Append(r.out, "Error: " \o r.raised) ELSE r.out
        IN  /\ responses' = Append(responses, resp)
            /\ CASE RoundOutcome(r) = "except" -> Lost(r.messages, out, llm_try)
                 [] RoundOutcome(r) = "return" ->
                        /\ state' = r.state
                        /\ messages' = r.messages
                        /\ stdout' = out
                        /\ pc' = "returned"
                        /\ UNCHANGED <<requests, llm_try>>
                 [] RoundOutcome(r) = "loop" -> LoopHead(r.messages, r.state, out, llm_try)
    /\ UNCHANGED <<max_tries, app_random_number, plays, base, ev_guess, ev_result>>

Round ==
    \/ \E resp \in PlainResponses : RoundWith(resp)
    \/ \E n \in 1..MaxCalls : \E f \in [1..n -> CallShapes] :
        RoundWith(ToolsResponse(Len(requests), f))

\* the client answers the final request: line 99; an exception leaves play()
FinalReplyWith(resp) ==
    /\ pc = "final"
    /\  LET r == call_llm(resp, messages, state, stdout, app_random_number)
        IN  /\ responses' = Append(responses, resp)
            /\ state' = r.state
            /\ messages' = r.messages
            /\ stdout' = r.out
            /\ pc' = IF r.raised # "" THEN "raised" ELSE "returned"
    /\ UNCHANGED <<max_tries, app_random_number, plays, base, llm_try, requests,
                   ev_guess, ev_result>>

FinalReply ==
    \/ \E resp \in PlainResponses : FinalReplyWith(resp)
    \/ \E n \in 1..MaxCalls : \E f \in [1..n -> CallShapes] :
        FinalReplyWith(ToolsResponse(Len(requests), f))

Next == Play \/ Round \/ FinalReply

Spec == Init /\ [][Next]_vars

\* every model call returns (with a response or an exception) and main()
\* does call play()
SpecLive == Init /\ [][Next]_vars /\ WF_vars(Next)

\* ------------------------------ the agent used again after play() is over
\* the client of the repeated games raises, replies in plain text, or sends
\* one guess in one well formed invocation of the registered function
ReplayResponses(c) ==
    PlainResponses
        \cup {ToolsResponse(c, <<(<<"evaluate_your_try", GuessArgs(n)>>)>>) : n \in Guesses}

\* play() is called again once it has returned or raised: lines 82-88
PlayAgain ==
    /\ pc \in {"returned", "raised"}
    /\ plays < MaxPlays
    /\ plays' = plays + 1
    /\ base' = [messages |-> Len(messages), requests |-> Len(requests), stdout |-> Len(stdout)]
    /\ LoopHead(messages, "PLAYING", stdout, 0)
    /\ UNCHANGED <<max_tries, app_random_number, responses, ev_guess, ev_result>>

ReplayRound == \E resp \in ReplayResponses(Len(requests)) : RoundWith(resp)

ReplayFinalReply == \E resp \in ReplayResponses(Len(requests)) : FinalReplyWith(resp)

NextReplay == Play \/ PlayAgain \/ ReplayRound \/ ReplayFinalReply

SpecReplay == Init /\ [][NextReplay]_vars

\* --------------------------------------- the evaluator called on its own
InitEval ==
    /\ max_tries = 0
    /\ app_random_number \in RangeLo..RangeHi
    /\ state = "INIT"
    /\ messages = init(max_tries)
    /\ stdout = <<start_game_message(max_tries)>>
    /\ llm_try = 0
    /\ pc = "idle"
    /\ plays = 0
    /\ requests = <<>>
    /\ responses = <<>>
    /\ base = [messages |-> 2, requests |-> 0, stdout |-> 1]
    /\ ev_guess \in RangeLo..RangeHi
    /\ ev_result = ""

Evaluate ==
    /\ ev_result = ""
    /\ ev_result' = evaluate_your_try(ev_guess, app_random_number)
    /\ UNCHANGED <<state, messages, max_tries, app_random_number, llm_try, pc, plays,
                   requests, responses, stdout, base, ev_guess>>

NextEval == Evaluate

SpecEval == InitEval /\ [][NextEval]_vars

\* ======================================================= properties
\* the requests of the current call of play()
PlayRequests == (base.requests + 1)..Len(requests)
\* its guessing rounds (tool-enabled model calls) and its calls without tools
GuessRequests == {i \in PlayRequests : requests[i].tools # no_tools}
FinalRequests == {i \in PlayRequests : requests[i].tools = no_tools}
Answered(i) == i <= Len(responses)
\* the lines printed during the current call of play()
PlayLines == {stdout[i] : i \in (base.stdout + 1)..Len(stdout)}

\* the guesses a response carries in well formed arguments
GuessesOf(resp) ==
    {n \in Guesses : \E j \in 1..Len(resp.tool_calls) :
        resp.tool_calls[j].function.arguments = GuessArgs(n)}
\* every invocation of the response is a wrong guess handed to the evaluator
OnlyWrongGuesses(resp) ==
    /\ resp.kind = "tools"
    /\ \A j \in 1..Len(resp.tool_calls) :
        /\ resp.tool_calls[j].function.name = "evaluate_your_try"
        /\ \E n \in Guesses \ {app_random_number} :
            resp.tool_calls[j].function.arguments = GuessArgs(n)
\* the three kinds of exception of a guessing round
ProtocolViolation(resp) == resp.kind = "text"
TransportFails(resp) == resp.kind = "fail"
DispatchFails(resp) ==
    /\ resp.kind = "tools"
    /\ \E j \in 1..Len(resp.tool_calls) :
        \/ resp.tool_calls[j].function.arguments = MalformedArgs
        \/ resp.tool_calls[j].function.name \notin {"evaluate_your_try"}

\* C1: play() issues at most max_tries tool-enabled model calls, whatever the
\* responses are: a (max_tries+1)-th guessing round never occurs.
C1_AtMostMaxTriesRounds == Cardinality(GuessRequests) <= max_tries

\* max_tries rounds of wrong guesses only, and the game forced to its end
C1_Witness ==
    /\ max_tries >= 2
    /\ Cardinality(GuessRequests) = max_tries
    /\ \A i \in GuessRequests : Answered(i) /\ OnlyWrongGuesses(responses[i])
    /\ state = "END"
    /\ pc = "final"

\* C2: once the response of a guessing round carries a guess equal to the
\* secret, the state is END when the round is over and no guessing round
\* follows in this call of play().
C2_RightGuessEndsGuessing ==
    \A i \in GuessRequests :
        (Answered(i) /\ app_random_number \in GuessesOf(responses[i]))
            => /\ state = "END"
               /\ \A k \in PlayRequests : k > i => requests[k].tools = no_tools

\* wrong guess, then the right guess in the last round k = max_tries
C2_Witness ==
    /\ max_tries >= 2
    /\ pc = "returned"
    /\ Cardinality(GuessRequests) = max_tries
    /\ FinalRequests = {}
    /\ \A i \in GuessRequests :
        IF i = Len(requests)
        THEN app_random_number \in GuessesOf(responses[i])
        ELSE OnlyWrongGuesses(responses[i])
    /\ state = "END"

\* C3: after a guessing round that raised (plain text while PLAYING, failed
\* tool dispatch, failed model call) no tool-enabled model call is issued in
\* this call of play(); a plain text reply in round 1 leaves one guessing round.
C3_ExceptionEndsGuessing ==
    /\ \A i \in GuessRequests :
        (Answered(i) /\ (\/ ProtocolViolation(responses[i])
                         \/ DispatchFails(responses[i])
                         \/ TransportFails(responses[i])))
            => \A k \in PlayRequests : k > i => requests[k].tools = no_tools
    /\ (/\ base.requests + 1 \in GuessRequests
        /\ Answered(base.requests + 1)
        /\ ProtocolViolation(responses[base.requests + 1]))
            => Cardinality(GuessRequests) = 1

\* plain text in round 1 of a game of two tries, and a dispatch failure
C3_Witness ==
    /\ max_tries >= 2
    /\ pc = "final"
    /\ Cardinality(GuessRequests) = 1
    /\ \E i \in GuessRequests : Answered(i) /\ ProtocolViolation(responses[i])
    /\ "Error: Unexpected message from LLM during PLAYING state." \in PlayLines

\* an assistant turn that carries tool invocations
IsToolCallTurn(m) == m.role = "assistant" /\ "tool_calls" \in DOMAIN m /\ m.tool_calls # <<>>
LostTurn == [role |-> "user", content |-> final_message(app_random_number)]

\* C4: when no round is in progress, every assistant turn with tool
\* invocations is followed at once by one tool-result turn per invocation, in
\* invocation order and with the invocation's identifier, and by no other
\* tool-result turn.
C4_ToolTurnsPaired ==
    pc \in {"idle", "returned", "raised"} =>
        \A i \in 1..Len(messages) :
            IsToolCallTurn(messages[i]) =>
                LET n == Len(messages[i].tool_calls)
                IN  /\ i + n <= Len(messages)
                    /\ \A j \in 1..n :
                        /\ messages[i + j].role = "tool"
                        /\ messages[i + j].tool_call_id = messages[i].tool_calls[j].id
                    /\ i + n < Len(messages) => messages[i + n + 1].role # "tool"

\* C5 as stated: END only after a right guess, with the counter at
\* max_tries, or after a plain reply received while PLAYING.
C5_EndHasCause ==
    state = "END" =>
        \/ "ME: " \o THAT_IS_RIGHT_MESSAGE \in PlayLines
        \/ llm_try = max_tries
        \/ \E i \in GuessRequests : Answered(i) /\ ProtocolViolation(responses[i])

\* C5 amended: END only after a right guess, with the counter at max_tries,
\* or after an exception in a guessing round: a plain reply received while
\* PLAYING, a failed tool dispatch or a failed model call.
C5_EndHasCauseOrException ==
    state = "END" =>
        \/ "ME: " \o THAT_IS_RIGHT_MESSAGE \in PlayLines
        \/ llm_try = max_tries
        \/ \E i \in GuessRequests :
            Answered(i) /\ (\/ ProtocolViolation(responses[i])
                            \/ DispatchFails(responses[i])
                            \/ TransportFails(responses[i]))

\* END in round 1 of 2 by a failed dispatch alone
C5_Witness ==
    /\ state = "END"
    /\ max_tries = 2
    /\ llm_try = 1
    /\ "ME: " \o THAT_IS_RIGHT_MESSAGE \notin PlayLines
    /\ \E i \in GuessRequests : Answered(i) /\ DispatchFails(responses[i])

\* C6: play() never leaves by an exception.
C6_NoExceptionLeavesPlay == pc # "raised"

\* C7: on 1..100 the evaluator answers exactly one of the three messages:
\* right iff guess = secret, too high iff guess > secret, too low iff
\* guess < secret.
C7_EvaluateTotalOrder ==
    ev_result # "" =>
        /\ ev_guess \in RangeLo..RangeHi /\ app_random_number \in RangeLo..RangeHi
        /\ ev_result \in {TOO_HIGH_MESSAGE, TOO_LOW_MESSAGE, THAT_IS_RIGHT_MESSAGE}
        /\ ev_result = THAT_IS_RIGHT_MESSAGE <=> ev_guess = app_random_number
        /\ ev_result = TOO_HIGH_MESSAGE <=> ev_guess > app_random_number
        /\ ev_result = TOO_LOW_MESSAGE <=> ev_guess < app_random_number

C7_Witness ==
    /\ ev_result = TOO_LOW_MESSAGE
    /\ ev_guess = 41
    /\ app_random_number = 42
    /\ ev_guess \notin Guesses

\* the number of invocations in the responses base.requests+1 .. i
RECURSIVE InvocationsUpTo(_)
InvocationsUpTo(i) ==
    IF i <= base.requests THEN 0
    ELSE Len(responses[i].tool_calls) + InvocationsUpTo(i - 1)

\* the first max_tries requests of this play() were answered by wrong
\* guesses only
AllRoundsWrong ==
    /\ pc # "idle"
    /\ \A i \in (base.requests + 1)..(base.requests + max_tries) :
        Answered(i) /\ OnlyWrongGuesses(responses[i])

\* C8: after max_tries rounds of wrong guesses the state is END, the
\* 'You lost' user turn stands right after the last tool-result turn, one more
\* model call was issued, without tools, and no further guessing round.
C8_LostAfterWrongRounds ==
    AllRoundsWrong =>
        LET last == base.requests + max_tries
            p == base.messages + max_tries + InvocationsUpTo(last) + 1
        IN  /\ state = "END"
            /\ GuessRequests = (base.requests + 1)..last
            /\ FinalRequests = {last + 1}
            /\ Len(requests) = last + 1
            /\ Len(messages) >= p
            /\ messages[p] = LostTurn
            /\ max_tries > 0 => messages[p - 1].role = "tool"

C8_Witness ==
    /\ AllRoundsWrong
    /\ max_tries = 2
    /\ pc = "returned"
    /\ responses[Len(responses)].kind = "text"
    /\ messages[Len(messages)] = LostTurn

\* C9: the state only moves INIT -> PLAYING -> END: END is never left, and
\* PLAYING never goes back to INIT.
C9_StateOneWay ==
    [][/\ state = "END" => state' = "END"
       /\ state = "PLAYING" => state' # "INIT"]_vars

\* C10: the transcript is seeded with the system turn and the rules turn,
\* and every step leaves the old transcript as a prefix of the new one.
C10_AppendOnly ==
    /\ [](Len(messages) >= 2 /\ SubSeq(messages, 1, 2) = init(max_tries))
    /\ [][/\ Len(messages') >= Len(messages)
          /\ SubSeq(messages', 1, Len(messages)) = messages]_vars

C10_Witness ==
    /\ pc = "returned"
    /\ Len(messages) >= 7
    /\ \E i \in 1..Len(messages) : messages[i] = LostTurn
    /\ SubSeq(messages, 1, 2) = init(max_tries)

\* the assistant turns of the transcript, and the responses the client has
\* returned (a raised exception returns none), in their order
AssistantTurns == SelectSeq(messages, LAMBDA m : m.role = "assistant")
Returned == SelectSeq(responses, LAMBDA r : r.kind # "fail")
ReturnedWithTools == SelectSeq(responses, LAMBDA r : r.kind = "tools")

\* the turn records the response: its content and its invocations unchanged
Records(turn, resp) ==
    /\ turn.content = resp.content
    /\ Len(turn.tool_calls) = Len(resp.tool_calls)
    /\ \A j \in 1..Len(resp.tool_calls) :
        /\ turn.tool_calls[j].id = resp.tool_calls[j].id
        /\ turn.tool_calls[j].function.name = resp.tool_calls[j].function.name
        /\ turn.tool_calls[j].function.arguments = resp.tool_calls[j].function.arguments

\* C11 as stated: the transcript holds one assistant turn for every response
\* the client has returned, plain text or tool invocations, in order of receipt.
C11_EveryResponseRecorded ==
    /\ Len(AssistantTurns) = Len(Returned)
    /\ \A k \in 1..Len(Returned) :
        /\ AssistantTurns[k].content = Returned[k].content
        /\ Returned[k].kind = "tools" => Records(AssistantTurns[k], Returned[k])

\* C11 amended: the transcript holds one assistant turn for every response
\* that carries tool invocations, in order of receipt; a plain text reply is
\* printed and gets no turn.
C11_ToolResponsesRecorded ==
    /\ Len(AssistantTurns) = Len(ReturnedWithTools)
    /\ \A k \in 1..Len(ReturnedWithTools) : Records(AssistantTurns[k], ReturnedWithTools[k])

\* two responses with invocations recorded, the second with two of them,
\* and a plain reply that left no turn
C11_Witness ==
    /\ pc = "returned"
    /\ Len(ReturnedWithTools) = 2
    /\ Len(ReturnedWithTools[2].tool_calls) = 2
    /\ Len(AssistantTurns) = 2
    /\ responses[Len(responses)].kind = "text"

\* the lines printed for the results of the evaluator (line 154), and the
\* places of the current play()'s output
EvalLines == {"ME: " \o m : m \in {TOO_HIGH_MESSAGE, TOO_LOW_MESSAGE, THAT_IS_RIGHT_MESSAGE}}
PlayOut == (base.stdout + 1)..Len(stdout)
LostLines == {i \in PlayOut : stdout[i] = final_message(app_random_number)}
PlayOver == pc \in {"returned", "raised"}

\* C12: tool invocations in the response to the final call are ignored: the
\* evaluator is not called after the 'You lost' message and the 'You lost'
\* user turn stays the last turn of the transcript.
C12_FinalToolCallsIgnored ==
    (PlayOver /\ FinalRequests # {}) =>
        /\ messages[Len(messages)] = LostTurn
        /\ \A i \in LostLines : \A j \in PlayOut : j > i => stdout[j] \notin EvalLines

\* the step in which the client returns a plain text reply
PlainReplyStep ==
    /\ Len(responses') = Len(responses) + 1
    /\ responses'[Len(responses')].kind = "text"
ProtocolError == "Error: Unexpected message from LLM during PLAYING state."

\* C13: handling a plain text reply appends no turn and leaves the state;
\* it raises the protocol violation iff the state is PLAYING: then play()
\* catches it and goes on to the lost game, and no turn but the 'You lost'
\* turn of play() is appended; when the state is not PLAYING the reply is
\* accepted, nothing changes but the printed line, and play() returns.
C13_PlainReplyFrame ==
    [][PlainReplyStep =>
        IF state = "PLAYING"
        THEN /\ stdout' = stdout \o <<"LLM: " \o responses'[Len(responses')].content,
                                      ProtocolError,
                                      final_message(app_random_number)>>
             /\ messages' = Append(messages, LostTurn)
             /\ pc' = "final"
        ELSE /\ stdout' = Append(stdout, "LLM: " \o responses'[Len(responses')].content)
             /\ messages' = messages
             /\ state' = state
             /\ pc' = "returned"]_vars

\* a plain reply while PLAYING, then a plain reply to the final call
C13_Witness ==
    /\ pc = "returned"
    /\ max_tries = 2
    /\ Len(responses) = 2
    /\ responses[1].kind = "text" /\ responses[2].kind = "text"
    /\ ProtocolError \in PlayLines
    /\ messages = Append(init(max_tries), LostTurn)

\* the result the evaluator owes to guess g
Owed(g) ==
    IF g = app_random_number THEN THAT_IS_RIGHT_MESSAGE
    ELSE IF g > app_random_number THEN TOO_HIGH_MESSAGE
    ELSE TOO_LOW_MESSAGE
\* the guess of a well formed invocation
GuessIn(tc) == CHOOSE n \in Guesses : tc.function.arguments = GuessArgs(n)
WellFormed(tc) ==
    /\ tc.function.name = "evaluate_your_try"
    /\ \E n \in Guesses : tc.function.arguments = GuessArgs(n)

\* the step in which the response to a guessing round arrives with
\* well formed invocations only
WellFormedToolStep ==
    /\ pc = "guessing"
    /\ Len(responses') = Len(responses) + 1
    /\ responses'[Len(responses')].kind = "tools"
    /\ \A j \in 1..Len(responses'[Len(responses')].tool_calls) :
        WellFormed(responses'[Len(responses')].tool_calls[j])

\* what the handler appends in that step: the assistant turn with the
\* invocations unchanged, then one tool-result turn per invocation in order,
\* with the invocation's identifier and the content Content(result)
AppendsTurns(Content(_)) ==
    LET resp == responses'[Len(responses')]
        n == Len(resp.tool_calls)
        m == Len(messages)
    IN  /\ Len(messages') >= m + 1 + n
        /\ SubSeq(messages', 1, m) = messages
        /\ messages'[m + 1].role = "assistant"
        /\ Records(messages'[m + 1], resp)
        /\ \A i \in 1..n :
            /\ messages'[m + 1 + i].role = "tool"
            /\ messages'[m + 1 + i].tool_call_id = resp.tool_calls[i].id
            /\ messages'[m + 1 + i].content = Content(Owed(GuessIn(resp.tool_calls[i])))
        /\ \/ Len(messages') = m + 1 + n
           \/ Len(messages') = m + 2 + n /\ messages'[m + 2 + n] = LostTurn

Verbatim(r) == r
InDoubleQuotes(r) == "\"" \o r \o "\""

\* C14 as stated: the i-th tool-result turn has the i-th invocation's
\* identifier and, as content, the evaluator's result for its guess.
C14_ToolTurnsCarryResult == [][WellFormedToolStep => AppendsTurns(Verbatim)]_vars

\* C14 amended: the content is the JSON text of the evaluator's result, the
\* result in double quotes.
C14_ToolTurnsCarryJsonResult == [][WellFormedToolStep => AppendsTurns(InDoubleQuotes)]_vars

\* two well formed wrong guesses answered in one round
C14_Witness ==
    /\ Len(responses) = 1
    /\ Len(responses[1].tool_calls) = 2
    /\ OnlyWrongGuesses(responses[1])
    /\ Len(messages) >= 5
    /\ messages[4].role = "tool" /\ messages[5].role = "tool"
    /\ messages[5].tool_call_id = responses[1].tool_calls[2].id

\* the number of guesses handed to the evaluator in the guessing rounds of
\* this play(): the result lines printed before the 'You lost' message
GuessesEvaluated ==
    Cardinality({i \in PlayOut : /\ stdout[i] \in EvalLines
                                 /\ \A j \in LostLines : i < j})

\* C15 as stated: the counter never exceeds max_tries and, between rounds,
\* equals the number of guesses handed to the evaluator (while the response
\* of a round is awaited that round is counted already).
C15_CounterCountsGuesses ==
    /\ llm_try <= max_tries
    /\ pc = "guessing" => llm_try - 1 = GuessesEvaluated
    /\ pc \in {"final", "returned", "raised"} => llm_try = GuessesEvaluated

\* C15 amended: the counter counts the guessing rounds: it never exceeds
\* max_tries and equals the number of tool-enabled model calls issued by
\* this play().
C15_CounterCountsRounds ==
    /\ llm_try <= max_tries
    /\ llm_try = Cardinality(GuessRequests)

\* two rounds, three guesses evaluated
C15_Witness ==
    /\ pc = "final"
    /\ llm_try = 2
    /\ Cardinality(GuessRequests) = 2
    /\ GuessesEvaluated = 3

\* the evaluator answered 'right' in a guessing round of this play()
RightInRounds ==
    \E i \in PlayOut : /\ stdout[i] = "ME: " \o THAT_IS_RIGHT_MESSAGE
                       /\ \A j \in LostLines : i < j
\* the 'You lost' turn was appended by this play()
LostTold == \E k \in (base.messages + 1)..Len(messages) : messages[k] = LostTurn

\* C16: once the guessing loop is over, the 'You lost' turn is appended and
\* the call without tools is issued exactly when no guess was right; after a
\* right guess there is neither.
C16_LostIffNoRightGuess ==
    pc \in {"final", "returned", "raised"} =>
        /\ (LostTold /\ FinalRequests # {}) <=> ~RightInRounds
        /\ RightInRounds => (~LostTold /\ FinalRequests = {})

\* C17: play() comes to its end, and issues at most max_tries + 1 model
\* calls: at most max_tries with tools and at most one without.
C17_PlayTerminates ==
    /\ <>PlayOver
    /\ [](/\ Cardinality(PlayRequests) <= max_tries + 1
          /\ Cardinality(GuessRequests) <= max_tries
          /\ Cardinality(FinalRequests) <= 1)

\* play() over after max_tries + 1 model calls
C17_Witness ==
    /\ PlayOver
    /\ max_tries = 2
    /\ Cardinality(GuessRequests) = 2
    /\ Cardinality(FinalRequests) = 1
    /\ Len(responses) = 3

\* the response that arrives carries a right guess followed by a wrong one
RightThenWrong(resp) ==
    \E i, j \in 1..Len(resp.tool_calls) :
        /\ i < j
        /\ GuessIn(resp.tool_calls[i]) = app_random_number
        /\ GuessIn(resp.tool_calls[j]) # app_random_number

\* C18: when a response of well formed invocations carries a right guess
\* and wrong guesses after it, the state is END after the round, every
\* invocation is evaluated and gets its tool-result turn, and play() returns
\* at once: no 'You lost' turn, no further model call.
C18_WonDespiteLaterWrongGuess ==
    [][(WellFormedToolStep /\ RightThenWrong(responses'[Len(responses')])) =>
        /\ state' = "END"
        /\ AppendsTurns(InDoubleQuotes)
        /\ Len(messages') = Len(messages) + 1 + Len(responses'[Len(responses')].tool_calls)
        /\ Len(stdout') = Len(stdout) + 2 * Len(responses'[Len(responses')].tool_calls)
        /\ requests' = requests
        /\ pc' = "returned"]_vars

\* the right guess, then a wrong one, in the first response
C18_Witness ==
    /\ pc = "returned"
    /\ state = "END"
    /\ Len(responses) = 1
    /\ Len(responses[1].tool_calls) = 2
    /\ \A j \in 1..2 : WellFormed(responses[1].tool_calls[j])
    /\ RightThenWrong(responses[1])
    /\ Len(messages) = 5
    /\ messages[5].content = InDoubleQuotes(Owed(GuessIn(responses[1].tool_calls[2])))
    /\ ~LostTold
====
